---- MODULE Spec2Model ----
(***************************************************************************)
(* A group of MPI processes, each running MpiCalcPi::run (MpiProcess::run  *)
(* with the MpiCalcPi manager and worker behaviours), over a model of the  *)
(* collective transport (barrier, broadcast, sum-reduce).                  *)
(*                                                                         *)
(* Granularity: the processes share no memory, so the code a process runs  *)
(* between two blocking collective calls is one atomic step.  A process is *)
(* either at "Start", blocked inside a collective call (pc names the       *)
(* call), or at "Done" (run returned) or "Crashed" (the integer division   *)
(* by zero of the manager's share trapped).                                *)
(*                                                                         *)
(* Spec is the group with every transport call free to fail; ArgsSpec is   *)
(* processArgs alone, over all short argument lists; RepeatSpec is the     *)
(* group run twice on inputs fixed beforehand (which calls fail, what each *)
(* rank's estimator gives); TwinSpec is the group run with the class-based *)
(* program and then, on the same inputs, with the program of main.cxx.     *)
(***************************************************************************)
EXTENDS Integers, Sequences, FiniteSets, TLC

\* ------------------------------------------------------------------ bounds
MaxTasks == 3
MaxFaults == 2
\* The longest argument list processArgs is tried on by itself.
MaxArgs == 3
\* The most transport calls a planned (repeatable) run lets fail.
MaxPlanFaults == 1

\* ------------------------------------------------- MpiProcess::ErrorCodes
ErrNone == 0
ErrVersion == 1
ErrInit == 2
ErrCommSize == 3
ErrCommRank == 4
ErrReduce == 5
ErrFinalize == 6
ErrBarrier == 7
ErrBcast == 8
ErrArgs == 9

RootUseManager == -1
DefaultManagerTaskId == 0
DefaultTotalNumThrows == 5000000

MPI_SUCCESS == 0
\* Any return code other than MPI_SUCCESS.
MPI_FAILURE == MPI_SUCCESS + 1
MPIOK(rc) == MPI_SUCCESS = rc

\* No root: the call is not a rooted collective.
NoRoot == RootUseManager - 1
\* An empty transport buffer.
NoData == <<>>

\* ------------------------------------------------------- command lines
\* A token is a sequence of characters.
TokProg == <<"p", "i">>
TokT == <<"-", "t">>
TokThrows == <<"-", "-", "t", "h", "r", "o", "w", "s">>
TokX == <<"x">>
Tok0 == <<"0">>
Tok3 == <<"3">>
Tok5 == <<"5">>
Tok12 == <<"1", "2">>

\* The command lines (argv, program name first) the group is started with.
Argvs ==
    { <<TokProg>>,
      <<TokProg, TokT, Tok5>>,
      <<TokProg, TokThrows, Tok3>>,
      <<TokProg, TokX, TokT, Tok12>>,
      <<TokProg, TokT, Tok0>>,
      <<TokProg, TokThrows>>,
      <<TokProg, TokT, Tok5, TokT>> }

Digits == <<"0", "1", "2", "3", "4", "5", "6", "7", "8", "9">>
IsDigit(c) == \E d \in 1..10 : Digits[d] = c
DigitValue(c) == (CHOOSE d \in 1..10 : Digits[d] = c) - 1

\* The value of the leading digits of tok from position i on.
RECURSIVE LeadingDigits(_, _, _)
LeadingDigits(tok, i, acc) ==
    IF i > Len(tok) \/ ~IsDigit(tok[i]) THEN acc
    ELSE LeadingDigits(tok, i + 1, 10 * acc + DigitValue(tok[i]))

\* std::stringstream ss(tok); ss >> total: an empty stream leaves the value,
\* leading digits are its new value, anything else stores 0 (C++11).  The
\* tokens tried hold no white space, no sign followed by a digit and no
\* value beyond the range of Hits (uint64_t).
StreamExtract(tok, total) ==
    IF Len(tok) = 0 THEN total
    ELSE IF IsDigit(tok[1]) THEN LeadingDigits(tok, 1, 0)
    ELSE 0

IsThrowsFlag(arg) == (TokT = arg) \/ (TokThrows = arg)

\* Mutant: the loop goes on at the value of a flag instead of after it.
RECURSIVE processArgsFromRescansValue(_, _, _)
processArgsFromRescansValue(args, i, total) ==
    IF i > Len(args) THEN [ret |-> ErrNone, total |-> total]
    ELSE IF IsThrowsFlag(args[i])
         THEN IF i + 1 > Len(args)
              THEN [ret |-> ErrArgs, total |-> total]
              ELSE processArgsFromRescansValue(args, i + 1,
                                               StreamExtract(args[i + 1], total))
         ELSE processArgsFromRescansValue(args, i + 1, total)

\* MpiCalcPi::processArgs from position i on: [ret, total].
RECURSIVE processArgsFrom(_, _, _)
processArgsFrom(args, i, total) ==
    IF i > Len(args) THEN [ret |-> ErrNone, total |-> total]
    ELSE IF IsThrowsFlag(args[i])
         THEN IF i + 1 > Len(args)
              THEN [ret |-> ErrArgs, total |-> total]
              ELSE processArgsFrom(args, i + 2, StreamExtract(args[i + 1], total))
         ELSE processArgsFrom(args, i + 1, total)

processArgs(args, total) == processArgsFrom(args, 1, total)

\* args.insert(args.end(), argv + 1, argv + argc): the program name stripped.
StripProgramName(av) == Tail(av)


\* ------------------------------------------------------------------ state
VARIABLES
    worldSize,      \* transport: the size of the group (MPI_COMM_WORLD)
    argv,           \* the command line every process of the group is given
    syncStarts_,    \* MpiProcess::syncStarts_
    syncEnds_,      \* MpiProcess::syncEnds_
    proc,           \* per process: the MpiProcess object, the behaviour's
                    \* locals, and what the process did (calls, output)
    barrierCount,   \* transport: barriers each process has entered
    bcastBuf,       \* transport: per root, the payload the root broadcast
    reduceBuf,      \* transport: per process, its reduce contribution
    faults,         \* transport calls that returned an error so far
    plan,           \* what the transport and the estimator do in this run,
                    \* when that is fixed beforehand (free: not fixed)
    firstRun        \* the outcome of an earlier run on the same inputs

vars == <<worldSize, argv, syncStarts_, syncEnds_, proc, barrierCount,
          bcastBuf, reduceBuf, faults, plan, firstRun>>

Procs == 0 .. (worldSize - 1)
AllProcs == 0 .. (MaxTasks - 1)

\* A local that is not in scope yet.
Unset == 0 - 1

\* The rank the transport gives process p (MPI_Comm_rank).
RankOf(p) == p

\* The return codes a transport call can give now.
Rcs == IF faults < MaxFaults THEN {MPI_SUCCESS, MPI_FAILURE} ELSE {MPI_SUCCESS}

\* MpiProcess(Comm = MPI_COMM_WORLD, managerTaskId = 0) and the member
\* initialisers; the behaviours' locals are not in scope.
NewProcess ==
    [ pc |-> "Start",
      ret |-> ErrNone,
      numTasks_ |-> 0,
      taskId_ |-> -1,
      managerTaskId_ |-> DefaultManagerTaskId,
      taskName_ |-> <<>>,
      libVerStr_ |-> <<>>,
      totalNumThrows_ |-> Unset,
      numThrows |-> Unset,
      hits |-> Unset,
      sumHits |-> Unset,
      behaviourRet |-> Unset,
      calls |-> <<>>,
      invoked |-> <<>>,
      reported |-> <<>> ]

\* Nothing is fixed beforehand: any call may fail, any throw may hit.
FreePlan == [free |-> TRUE, fail |-> {}, est |-> <<>>, ub |-> "trap"]
\* No earlier run.
NoRun == <<>>

\* The group before its processes start.
GroupStart ==
    /\ proc = [p \in Procs |-> NewProcess]
    /\ barrierCount = [p \in Procs |-> 0]
    /\ bcastBuf = [r \in Procs |-> NoData]
    /\ reduceBuf = [p \in Procs |-> NoData]
    /\ faults = 0

Init ==
    /\ worldSize \in 1..MaxTasks
    /\ argv \in Argvs
    /\ syncStarts_ \in BOOLEAN
    /\ syncEnds_ \in BOOLEAN
    /\ GroupStart
    /\ plan = FreePlan
    /\ firstRun = NoRun

\* ------------------------------------------------- MpiProcess: helpers
\* A step whose outcome the code tests, in the order the process made them:
\* a transport call (op, root or NoRoot when not rooted, rc) or processArgs
\* (rc is its result).
Call(l, op, root, rc) ==
    [l EXCEPT !.calls = Append(@, [op |-> op, root |-> root, rc |-> rc])]

\* The last step of the log.
LastCall(l) == l.calls[Len(l.calls)]

\* MpiProcess::getTaskName: the name is built once, from two transport
\* queries and taskId_, and cached.  Which of the queried name or its NULL_
\* placeholder is printed is not modelled (rc of the two queries is ignored).
getTaskName(l) ==
    IF l.taskName_ = <<>>
    THEN [Call(Call(l, "Comm_get_name", NoRoot, MPI_SUCCESS),
               "Get_processor_name", NoRoot, MPI_SUCCESS)
              EXCEPT !.taskName_ = <<"comm", l.taskId_, "host">>]
    ELSE l

\* MpiProcess::getVersionString: built once from two transport queries.
getVersionString(l) ==
    IF l.libVerStr_ = <<>>
    THEN [Call(Call(l, "Get_library_version", NoRoot, MPI_SUCCESS),
               "Get_version", NoRoot, MPI_SUCCESS)
              EXCEPT !.libVerStr_ = <<"lib", "API">>]
    ELSE l

\* Mutant: a wrapper that roots the broadcast at the caller's own rank.
mpiBcastRootOwnRank(l, root) == IF RootUseManager = root THEN l.taskId_ ELSE root

\* The root mpiBcast and mpiReduce hand to the transport.
mpiBcastRoot(l, root) == IF RootUseManager = root THEN l.managerTaskId_ ELSE root
mpiReduceRoot(l, root) == IF RootUseManager = root THEN l.managerTaskId_ ELSE root

\* Mutant: the sum of hits is reduced to the caller's own rank.
mpiReduceSumHitsRootOwnRank(l, root) ==
    IF -1 = root THEN l.taskId_ ELSE root

mpiReduceSumHitsRoot(l, root) ==
    mpiReduceRoot(l, IF -1 = root THEN l.managerTaskId_ ELSE root)

\* Mutant: a failed finalize overwrites the status already recorded.
FinalizeStatusOverwrites(ret, rc) == IF ~MPIOK(rc) THEN ErrFinalize ELSE ret

\* The status after MPI_Finalize returned rc.
FinalizeStatus(ret, rc) ==
    IF ~MPIOK(rc) /\ (ErrNone = ret) THEN ErrFinalize ELSE ret

\* Mutant: run clears the rank and the size once the transport is finalized.
runFinalizeClearsIdentity(l, rcFin) ==
    LET l1 == Call(l, "Finalize", NoRoot, rcFin)
        l2 == [l1 EXCEPT !.ret = FinalizeStatus(l.ret, rcFin),
                         !.taskId_ = -1, !.numTasks_ = 0]
    IN  [getTaskName(l2) EXCEPT !.pc = "Done"]

\* Mutant: run skips MPI_Finalize once an error is recorded.
runFinalizeSkippedOnError(l, rcFin) ==
    IF ErrNone # l.ret
    THEN [getTaskName(l) EXCEPT !.pc = "Done"]
    ELSE [getTaskName([Call(l, "Finalize", NoRoot, rcFin)
                          EXCEPT !.ret = FinalizeStatus(l.ret, rcFin)])
              EXCEPT !.pc = "Done"]

\* run, from MPI_Finalize to its return.
runFinalize(l, rcFin) ==
    LET l1 == Call(l, "Finalize", NoRoot, rcFin)
        l2 == [l1 EXCEPT !.ret = FinalizeStatus(l.ret, rcFin)]
        l3 == getTaskName(l2)
    IN  [l3 EXCEPT !.pc = "Done"]

\* Mutant: run executes the end barrier whatever the behaviour returned.
SyncsEndWhateverRet(ret) == syncEnds_

\* Whether run executes the end barrier after the behaviour returned ret.
SyncsEnd(ret) == ~(ErrNone # ret) /\ syncEnds_

\* run, from the behaviour's return (status bret) on: the end barrier is
\* issued (rcColl) or skipped, then finalize.
runAfterBehaviour(l, bret, rcColl, rcFin) ==
    LET l1 == [l EXCEPT !.ret = bret, !.behaviourRet = bret]
    IN  IF SyncsEnd(bret)
        THEN LET l2 == Call(l1, "Barrier", NoRoot, rcColl)
             IN  IF MPIOK(rcColl)
                 THEN [l2 EXCEPT !.pc = "EndBarrier"]
                 ELSE runFinalize([l2 EXCEPT !.ret = ErrBarrier], rcFin)
        ELSE runFinalize(l1, rcFin)

\* ------------------------------------------------- transport: collectives
\* MPI_Barrier returns once every process of the group entered as many
\* barriers as the caller.
BarrierComplete(p) == \A q \in Procs : barrierCount[q] >= barrierCount[p]

\* MPI_Bcast returns once the root's payload is there (at once on the root).
BcastComplete(root) == (root \in Procs) /\ (bcastBuf[root] # NoData)

\* MPI_Reduce returns at once on a process that is not the root, and on the
\* root once every process of the group contributed to that root.
ReduceComplete(p, root) ==
    (RankOf(p) = root) =>
        \A q \in Procs : (reduceBuf[q] # NoData) /\ (reduceBuf[q][1] = root)

RECURSIVE SumUpTo(_, _)
SumUpTo(buf, n) == IF n < 0 THEN 0 ELSE buf[n][2] + SumUpTo(buf, n - 1)

\* MPI_SUM over the contributions of the whole group.
ReduceSum(buf) == SumUpTo(buf, worldSize - 1)

\* ---------------------------------------------------------- MpiCalcPi
\* The manager's and a worker's number of throws.
ManagerShare(total, numTasks) ==
    (total \div numTasks) + (total % (total \div numTasks))
WorkerShare(total, numTasks) == total \div numTasks

\* MpiCalcPi::throwDarts: some number of hits out of numDarts throws; sel
\* picks which (the random stream is not modelled).
HitOutcomes == {"quarter", "all"}
throwDarts(numDarts, sel) ==
    IF sel = "all" THEN numDarts ELSE numDarts \div 4

\* What an integer remainder by zero does: trap (the process dies), or give
\* the dividend back (hardware whose division by zero yields 0).
UbOutcomes == {"trap", "wrap"}

\* Mutant: the worker names itself as the root of the broadcast.
WorkerBcastRootOwnRank(l) == l.taskId_

\* Mutant: the hits are reduced to the last rank of the group.
ReduceRootLastRank(l) == l.numTasks_ - 1

\* The roots the two behaviours name.
ManagerBcastRoot(l) == l.managerTaskId_
WorkerBcastRoot(l) == mpiBcastRoot(l, RootUseManager)
ReduceRoot(l) == mpiReduceSumHitsRoot(l, -1)

\* Mutant: the behaviour does not test the result of the reduce.
behaviourReduceUntested(l, pcReduce, rcColl, rcEnd, rcFin) ==
    [Call(l, "Reduce", ReduceRoot(l), rcColl) EXCEPT !.pc = pcReduce]

\* runAsManagerImpl / runAsWorkerImpl, from the barrier's return to the
\* reduce call.
behaviourReduce(l, pcReduce, rcColl, rcEnd, rcFin) ==
    LET l1 == Call(l, "Reduce", ReduceRoot(l), rcColl)
    IN  IF ~MPIOK(rcColl)
        THEN runAfterBehaviour(l1, ErrReduce, rcEnd, rcFin)
        ELSE [l1 EXCEPT !.pc = pcReduce]

\* Mutant: the behaviour goes from its throws to the reduce with no barrier.
behaviourThrowNoBarrier(l, numThrows, sel, pcBarrier, rcColl, rcEnd, rcFin) ==
    behaviourReduce([l EXCEPT !.numThrows = numThrows,
                              !.hits = throwDarts(numThrows, sel),
                              !.sumHits = 0],
                    IF pcBarrier = "MgrBarrier" THEN "MgrReduce" ELSE "WrkReduce",
                    rcColl, rcEnd, rcFin)

\* runAsManagerImpl / runAsWorkerImpl, from throwDarts to the barrier call.
behaviourThrow(l, numThrows, sel, pcBarrier, rcColl, rcEnd, rcFin) ==
    LET l1 == [l EXCEPT !.numThrows = numThrows,
                        !.hits = throwDarts(numThrows, sel),
                        !.sumHits = 0]
        l2 == Call(l1, "Barrier", NoRoot, rcColl)
    IN  IF ~MPIOK(rcColl)
        THEN runAfterBehaviour(l2, ErrBarrier, rcEnd, rcFin)
        ELSE [l2 EXCEPT !.pc = pcBarrier]

\* runAsManagerImpl: Settings s; int ret = processArgs(args, s).  The call
\* is logged with its result as rc.
managerProcessArgs(l, args) ==
    LET pa == processArgs(args, DefaultTotalNumThrows)
    IN  [l EXCEPT !.totalNumThrows_ = pa.total,
                  !.calls = Append(@, [op |-> "processArgs",
                                       root |-> NoRoot, rc |-> pa.ret])]

\* Mutant: the manager broadcasts whatever processArgs returned.
runAsManagerImplBcastAnyway(l, args, rcColl, rcEnd, rcFin) ==
    LET l2 == managerProcessArgs(
                  getVersionString([l EXCEPT !.invoked = Append(@, "manager")]),
                  args)
        l3 == Call(l2, "Bcast", l2.managerTaskId_, rcColl)
    IN  IF ~MPIOK(rcColl)
        THEN runAfterBehaviour(l3, ErrBcast, rcEnd, rcFin)
        ELSE [l3 EXCEPT !.pc = "MgrBcast"]

\* runAsManagerImpl, from its start to the broadcast call.
runAsManagerImpl(l, args, rcColl, rcEnd, rcFin) ==
    LET l1 == getVersionString([l EXCEPT !.invoked = Append(@, "manager")])
        l2 == managerProcessArgs(l1, args)
        ret == LastCall(l2).rc
    IN  IF ~MPIOK(ret)
        THEN runAfterBehaviour(l2, ret, rcEnd, rcFin)
        ELSE LET l3 == Call(l2, "Bcast", ManagerBcastRoot(l2), rcColl)
             IN  IF ~MPIOK(rcColl)
                 THEN runAfterBehaviour(l3, ErrBcast, rcEnd, rcFin)
                 ELSE [l3 EXCEPT !.pc = "MgrBcast"]

\* runAsManagerImpl, from the broadcast's return to the barrier call.
managerWork(l, sel, ub, rcColl, rcEnd, rcFin) ==
    IF (l.totalNumThrows_ \div l.numTasks_) = 0
    THEN IF ub = "trap"
         THEN [l EXCEPT !.pc = "Crashed"]
         ELSE behaviourThrow(l, (l.totalNumThrows_ \div l.numTasks_)
                                    + l.totalNumThrows_,
                             sel, "MgrBarrier", rcColl, rcEnd, rcFin)
    ELSE behaviourThrow(l, ManagerShare(l.totalNumThrows_, l.numTasks_),
                        sel, "MgrBarrier", rcColl, rcEnd, rcFin)

\* Mutant: the manager reports its own hits instead of the reduced sum.
managerReportOwnHits(l, sum, rcEnd, rcFin) ==
    runAfterBehaviour(
        [l EXCEPT !.sumHits = sum,
                  !.reported = Append(@, [sumHits |-> l.hits,
                                          total |-> l.totalNumThrows_])],
        ErrNone, rcEnd, rcFin)

\* runAsManagerImpl, from the reduce's return to its own return: the
\* manager prints the total and 4 * sumHits / total.
managerReport(l, sum, rcEnd, rcFin) ==
    LET l1 == [l EXCEPT !.sumHits = sum,
                        !.reported = Append(@, [sumHits |-> sum,
                                                total |-> l.totalNumThrows_])]
    IN  runAfterBehaviour(l1, ErrNone, rcEnd, rcFin)

\* runAsWorkerImpl, from its start to the broadcast call.
runAsWorkerImpl(l, args, rcColl, rcEnd, rcFin) ==
    LET l1 == [l EXCEPT !.invoked = Append(@, "worker"),
                        !.totalNumThrows_ = DefaultTotalNumThrows]
        l2 == Call(l1, "Bcast", WorkerBcastRoot(l1), rcColl)
    IN  IF ~MPIOK(rcColl)
        THEN runAfterBehaviour(l2, ErrBcast, rcEnd, rcFin)
        ELSE [l2 EXCEPT !.pc = "WrkBcast"]

\* runAsWorkerImpl, from the broadcast's return to the barrier call.
workerWork(l, sel, rcColl, rcEnd, rcFin) ==
    behaviourThrow(l, WorkerShare(l.totalNumThrows_, l.numTasks_),
                   sel, "WrkBarrier", rcColl, rcEnd, rcFin)

\* ---------------------------------------------------------- MpiProcess::run
\* Mutant: every rank from the manager's on runs as manager.
IsManagerFromRank(l) == l.managerTaskId_ <= l.taskId_

\* Whether run dispatches to the manager behaviour.
IsManager(l) == l.managerTaskId_ = l.taskId_

\* run, from the start barrier's return (or its skip) to the behaviour's
\* first collective call.
runDispatch(l, rcColl, rcEnd, rcFin) ==
    IF IsManager(l)
    THEN runAsManagerImpl(l, StripProgramName(argv), rcColl, rcEnd, rcFin)
    ELSE runAsWorkerImpl(l, StripProgramName(argv), rcColl, rcEnd, rcFin)

\* Mutant: run does not test the result of the rank query.
runStartRankUntested(l, p, rcInit, rcSize, rcRank, rcColl, rcEnd, rcFin) ==
    LET l1 == Call(l, "Init", NoRoot, rcInit)
        l2 == Call(l1, "Comm_size", NoRoot, rcSize)
        l3 == Call([l2 EXCEPT !.numTasks_ = worldSize], "Comm_rank", NoRoot, rcRank)
        l4 == getTaskName([l3 EXCEPT !.taskId_ = RankOf(p)])
        l5 == Call(l4, "Barrier", NoRoot, rcColl)
    IN  IF ~MPIOK(rcInit) THEN runFinalize([l1 EXCEPT !.ret = ErrInit], rcFin)
        ELSE IF ~MPIOK(rcSize) THEN runFinalize([l2 EXCEPT !.ret = ErrCommSize], rcFin)
        ELSE IF syncStarts_ /\ ~MPIOK(rcColl)
             THEN runFinalize([l5 EXCEPT !.ret = ErrBarrier], rcFin)
        ELSE IF syncStarts_ THEN [l5 EXCEPT !.pc = "StartBarrier"]
        ELSE runDispatch(l4, rcColl, rcEnd, rcFin)

\* run, from its start to the first collective call.
runStart(l, p, rcInit, rcSize, rcRank, rcColl, rcEnd, rcFin) ==
    LET l1 == Call(l, "Init", NoRoot, rcInit)
        l2 == Call(l1, "Comm_size", NoRoot, rcSize)
        l3 == Call([l2 EXCEPT !.numTasks_ = worldSize], "Comm_rank", NoRoot, rcRank)
        l4 == getTaskName([l3 EXCEPT !.taskId_ = RankOf(p)])
        l5 == Call(l4, "Barrier", NoRoot, rcColl)
    IN  IF ~MPIOK(rcInit) THEN runFinalize([l1 EXCEPT !.ret = ErrInit], rcFin)
        ELSE IF ~MPIOK(rcSize) THEN runFinalize([l2 EXCEPT !.ret = ErrCommSize], rcFin)
        ELSE IF ~MPIOK(rcRank) THEN runFinalize([l3 EXCEPT !.ret = ErrCommRank], rcFin)
        ELSE IF syncStarts_ /\ ~MPIOK(rcColl)
             THEN runFinalize([l5 EXCEPT !.ret = ErrBarrier], rcFin)
        ELSE IF syncStarts_ THEN [l5 EXCEPT !.pc = "StartBarrier"]
        ELSE runDispatch(l4, rcColl, rcEnd, rcFin)

\* ------------------------------------------------------------------ steps
InCollective(l) == l.pc \notin {"Start", "Done", "Crashed"}

RECURSIVE FailedCalls(_, _)
FailedCalls(calls, n) ==
    IF n = 0 THEN 0
    ELSE FailedCalls(calls, n - 1)
         + (IF calls[n].op # "processArgs" /\ ~MPIOK(calls[n].rc) THEN 1 ELSE 0)

\* The transport calls that return a code the program tests for the status.
TestedOps ==
    {"Init", "Comm_size", "Comm_rank", "Barrier", "Bcast", "Reduce", "Finalize"}

\* The i-th call of a log by its name: the operation and which call of that
\* operation it is.
CallName(calls, i) ==
    <<calls[i].op, Cardinality({j \in 1..i : calls[j].op = calls[i].op})>>

\* Whether the step of p to l2 is what the plan of this run says: the calls
\* p made fail exactly where the plan lets them, the estimator gives the
\* hits the plan fixes for p's rank, and a remainder by zero does what the
\* plan's build does.
PlanAllows(p, l2) ==
    IF plan.free THEN TRUE
    ELSE /\ \A i \in (Len(proc[p].calls) + 1)..Len(l2.calls) :
                (l2.calls[i].op \in TestedOps) =>
                    (~MPIOK(l2.calls[i].rc)
                        <=> (<<p, CallName(l2.calls, i)>> \in plan.fail))
         /\ (proc[p].hits = Unset /\ l2.hits # Unset) =>
                (l2.hits = throwDarts(l2.numThrows, plan.est[p]))
         /\ (l2.pc = "Crashed") => (plan.ub = "trap")
         /\ (proc[p].numThrows = Unset /\ l2.numThrows # Unset
                 /\ IsManager(l2) /\ (l2.totalNumThrows_ \div l2.numTasks_) = 0)
               => (plan.ub = "wrap")

\* Process p goes on to l2: what the code did to the process, and what the
\* collective call it is now inside (its last call) did to the transport.
StepTo(p, l2) ==
    LET c == LastCall(l2)
        entered == InCollective(l2)
    IN  /\ proc' = [proc EXCEPT ![p] = l2]
        /\ barrierCount' = IF entered /\ c.op = "Barrier"
                           THEN [barrierCount EXCEPT ![p] = @ + 1]
                           ELSE barrierCount
        /\ bcastBuf' = IF entered /\ c.op = "Bcast" /\ RankOf(p) = c.root
                       THEN [bcastBuf EXCEPT ![c.root] = <<l2.totalNumThrows_>>]
                       ELSE bcastBuf
        /\ reduceBuf' = IF entered /\ c.op = "Reduce"
                        THEN [reduceBuf EXCEPT ![p] = <<c.root, l2.hits>>]
                        ELSE reduceBuf
        /\ faults' = faults + FailedCalls(l2.calls, Len(l2.calls))
                            - FailedCalls(proc[p].calls, Len(proc[p].calls))
        /\ faults' <= MaxFaults
        /\ PlanAllows(p, l2)
        /\ UNCHANGED <<worldSize, argv, syncStarts_, syncEnds_, plan, firstRun>>

\* The return codes of a call the code makes only when cond holds.
RcsIf(cond) == IF cond THEN Rcs ELSE {MPI_SUCCESS}

\* Whether the step that takes a process to l returns from run: only then
\* does it call MPI_Finalize.
Returns(l) == l.pc = "Done"

RunStart(p) ==
    /\ proc[p].pc = "Start"
    /\ \E rcInit \in Rcs :
       \E rcSize \in RcsIf(MPIOK(rcInit)) :
       \E rcRank \in RcsIf(MPIOK(rcInit) /\ MPIOK(rcSize)) :
       \E rcColl \in RcsIf(MPIOK(rcInit) /\ MPIOK(rcSize) /\ MPIOK(rcRank)) :
          \E rcFin \in RcsIf(Returns(
              runStart(proc[p], p, rcInit, rcSize, rcRank, rcColl,
                       MPI_SUCCESS, MPI_SUCCESS))) :
          StepTo(p,
              runStart(proc[p], p, rcInit, rcSize, rcRank, rcColl,
                       MPI_SUCCESS, rcFin))

StartBarrierDone(p) ==
    /\ proc[p].pc = "StartBarrier"
    /\ BarrierComplete(p)
    /\ \E rcColl \in Rcs :
          \E rcFin \in RcsIf(Returns(
              runDispatch(proc[p], rcColl, MPI_SUCCESS, MPI_SUCCESS))) :
          StepTo(p,
              runDispatch(proc[p], rcColl, MPI_SUCCESS, rcFin))

\* The process with the payload the broadcast delivered.
BcastDelivered(l) ==
    [l EXCEPT !.totalNumThrows_ = bcastBuf[LastCall(l).root][1]]

ManagerBcastDone(p) ==
    /\ proc[p].pc = "MgrBcast"
    /\ BcastComplete(LastCall(proc[p]).root)
    /\ \E sel \in HitOutcomes, ub \in UbOutcomes, rcColl \in Rcs :
          \E rcFin \in RcsIf(Returns(
              managerWork(BcastDelivered(proc[p]), sel, ub, rcColl,
                          MPI_SUCCESS, MPI_SUCCESS))) :
          StepTo(p,
              managerWork(BcastDelivered(proc[p]), sel, ub, rcColl,
                          MPI_SUCCESS, rcFin))

ManagerBarrierDone(p) ==
    /\ proc[p].pc = "MgrBarrier"
    /\ BarrierComplete(p)
    /\ \E rcColl \in Rcs :
          \E rcFin \in RcsIf(Returns(
              behaviourReduce(proc[p], "MgrReduce", rcColl, MPI_SUCCESS, MPI_SUCCESS))) :
          StepTo(p,
              behaviourReduce(proc[p], "MgrReduce", rcColl, MPI_SUCCESS, rcFin))

\* What the reduce left in the caller's receive buffer: the sum on the
\* root, nothing new elsewhere.
ReduceDelivered(p, l) ==
    IF RankOf(p) = LastCall(l).root THEN ReduceSum(reduceBuf) ELSE l.sumHits

ManagerReduceDone(p) ==
    /\ proc[p].pc = "MgrReduce"
    /\ ReduceComplete(p, LastCall(proc[p]).root)
    /\ \E rcEnd \in RcsIf(syncEnds_) :
          \E rcFin \in RcsIf(Returns(
              managerReport(proc[p], ReduceDelivered(p, proc[p]), rcEnd, MPI_SUCCESS))) :
          StepTo(p,
              managerReport(proc[p], ReduceDelivered(p, proc[p]), rcEnd, rcFin))

\* Mutant: the worker does not wait for the broadcast to arrive and works
\* with whatever its Settings hold when it gets there.
WorkerBcastDoneNoWait(p) ==
    /\ proc[p].pc = "WrkBcast"
    /\ LET l == IF BcastComplete(LastCall(proc[p]).root)
                THEN BcastDelivered(proc[p]) ELSE proc[p]
       IN  \E sel \in HitOutcomes, rcColl \in Rcs :
              \E rcFin \in RcsIf(Returns(
                  workerWork(l, sel, rcColl, MPI_SUCCESS, MPI_SUCCESS))) :
              StepTo(p, workerWork(l, sel, rcColl, MPI_SUCCESS, rcFin))

WorkerBcastDone(p) ==
    /\ proc[p].pc = "WrkBcast"
    /\ BcastComplete(LastCall(proc[p]).root)
    /\ \E sel \in HitOutcomes, rcColl \in Rcs :
          \E rcFin \in RcsIf(Returns(
              workerWork(BcastDelivered(proc[p]), sel, rcColl,
                         MPI_SUCCESS, MPI_SUCCESS))) :
          StepTo(p,
              workerWork(BcastDelivered(proc[p]), sel, rcColl,
                         MPI_SUCCESS, rcFin))

WorkerBarrierDone(p) ==
    /\ proc[p].pc = "WrkBarrier"
    /\ BarrierComplete(p)
    /\ \E rcColl \in Rcs :
          \E rcFin \in RcsIf(Returns(
              behaviourReduce(proc[p], "WrkReduce", rcColl, MPI_SUCCESS, MPI_SUCCESS))) :
          StepTo(p,
              behaviourReduce(proc[p], "WrkReduce", rcColl, MPI_SUCCESS, rcFin))

WorkerReduceDone(p) ==
    /\ proc[p].pc = "WrkReduce"
    /\ ReduceComplete(p, LastCall(proc[p]).root)
    /\ \E rcEnd \in RcsIf(syncEnds_) :
          \E rcFin \in RcsIf(Returns(
              runAfterBehaviour(proc[p], ErrNone, rcEnd, MPI_SUCCESS))) :
          StepTo(p,
              runAfterBehaviour(proc[p], ErrNone, rcEnd, rcFin))

EndBarrierDone(p) ==
    /\ proc[p].pc = "EndBarrier"
    /\ BarrierComplete(p)
    /\ \E rcFin \in Rcs : StepTo(p, runFinalize(proc[p], rcFin))

Step(p) ==
    \/ RunStart(p)
    \/ StartBarrierDone(p)
    \/ ManagerBcastDone(p)
    \/ ManagerBarrierDone(p)
    \/ ManagerReduceDone(p)
    \/ WorkerBcastDone(p)
    \/ WorkerBarrierDone(p)
    \/ WorkerReduceDone(p)
    \/ EndBarrierDone(p)

Next == \E p \in Procs : Step(p)

Spec == Init /\ [][Next]_vars

\* The group does not stop while some process can take a step: each process
\* is an operating-system process of its own and runs when it can.  (A run
\* is finite, so this is as strong as fairness for each process.)
FairSpec == Spec /\ WF_vars(Next)

\* ------------------------------------------------ processArgs by itself
\* The tokens of an argument list, and every command line of at most
\* MaxArgs arguments after the program name.
Tokens == {TokT, TokThrows, TokX, Tok0, Tok3, Tok5, Tok12}
ArgLists == UNION {[1..n -> Tokens] : n \in 0..MaxArgs}
CommandLines == {<<TokProg>> \o a : a \in ArgLists}

\* One process, about to call processArgs on a command line.
ArgsInit ==
    /\ worldSize = 1
    /\ argv \in CommandLines
    /\ syncStarts_ = TRUE
    /\ syncEnds_ = FALSE
    /\ GroupStart
    /\ plan = FreePlan
    /\ firstRun = NoRun

\* Settings s; processArgs(args, s) on the stripped command line.
ProcessArgsCall ==
    /\ proc[0].calls = <<>>
    /\ proc' = [proc EXCEPT ![0] = managerProcessArgs(@, StripProgramName(argv))]
    /\ UNCHANGED <<worldSize, argv, syncStarts_, syncEnds_, barrierCount,
                   bcastBuf, reduceBuf, faults, plan, firstRun>>

ArgsNext == ProcessArgsCall

ArgsSpec == ArgsInit /\ [][ArgsNext]_vars

\* ------------------------------------------- the same run, made twice
\* The calls of a run the program tests, by name.
PlanCallNames ==
    { <<"Init", 1>>, <<"Comm_size", 1>>, <<"Comm_rank", 1>>, <<"Bcast", 1>>,
      <<"Reduce", 1>>, <<"Finalize", 1>>,
      <<"Barrier", 1>>, <<"Barrier", 2>>, <<"Barrier", 3>> }

\* The subsets of S of at most k elements.
RECURSIVE SetsUpTo(_, _)
SetsUpTo(S, k) ==
    IF k = 0 THEN {{}}
    ELSE LET R == SetsUpTo(S, k - 1)
         IN  R \cup {r \cup {x} : r \in R, x \in S}

\* What is fixed beforehand in a run that can be made again: which calls of
\* which process fail, the estimator of each rank (its seed), and the build.
Plans ==
    [ free : {FALSE},
      fail : SetsUpTo(Procs \X PlanCallNames, MaxPlanFaults),
      est : [Procs -> HitOutcomes],
      ub : UbOutcomes ]

RepeatArgvs ==
    { <<TokProg>>, <<TokProg, TokThrows, Tok3>>, <<TokProg, TokT, Tok0>>,
      <<TokProg, TokThrows>> }

RepeatInit ==
    /\ worldSize \in 1..MaxTasks
    /\ argv \in RepeatArgvs
    /\ syncStarts_ \in BOOLEAN
    /\ syncEnds_ \in BOOLEAN
    /\ GroupStart
    /\ plan \in Plans
    /\ firstRun = NoRun

\* A process that cannot take a step: it returned or died, or it is inside
\* a collective call that does not return yet.
Blocked(p) ==
    LET l == proc[p]
    IN  CASE l.pc \in {"Done", "Crashed"} -> TRUE
          [] l.pc \in {"StartBarrier", "MgrBarrier", "WrkBarrier", "EndBarrier"}
                -> ~BarrierComplete(p)
          [] l.pc \in {"MgrBcast", "WrkBcast"}
                -> ~BcastComplete(LastCall(l).root)
          [] l.pc \in {"MgrReduce", "WrkReduce"}
                -> ~ReduceComplete(p, LastCall(l).root)
          [] OTHER -> FALSE

\* No process of the group can take a step: each returned, died or hangs.
AtRest == \A p \in Procs : Blocked(p)

\* What a run gave: the exit code of each rank (Unset: none, the process
\* did not return), where each process is, and what each reported.
Outcome ==
    [ exit |-> [p \in Procs |-> IF proc[p].pc = "Done" THEN proc[p].ret ELSE Unset],
      at |-> [p \in Procs |-> proc[p].pc],
      aggregate |-> [p \in Procs |-> proc[p].reported] ]

\* The group is started again on the same inputs, once the first run is
\* over; the first run's outcome is kept.
RunAgain ==
    /\ firstRun = NoRun
    /\ AtRest
    /\ firstRun' = Outcome
    /\ proc' = [p \in Procs |-> NewProcess]
    /\ barrierCount' = [p \in Procs |-> 0]
    /\ bcastBuf' = [r \in Procs |-> NoData]
    /\ reduceBuf' = [p \in Procs |-> NoData]
    /\ faults' = 0
    /\ UNCHANGED <<worldSize, argv, syncStarts_, syncEnds_, plan>>

RepeatNext ==
    \/ Next
    \/ RunAgain

RepeatSpec == RepeatInit /\ [][RepeatNext]_vars

\* ------------------------------------- main.cxx: the single-file program
\* main.cxx declares MpiProcess and MpiCalcPi once more, in one file.  Its
\* definitions carry the prefix Main_; they are taken from main.cxx alone.
\* The transport, the stream extraction and the tokens are the libraries'
\* and the command line's, and are the ones above.

\* enum ErrorCodes of main.cxx.
Main_ErrNone == 0
Main_ErrVersion == 1
Main_ErrInit == 2
Main_ErrCommSize == 3
Main_ErrCommRank == 4
Main_ErrReduce == 5
Main_ErrFinalize == 6
Main_ErrBarrier == 7
Main_ErrBcast == 8
Main_ErrArgs == 9

Main_DefaultManagerTaskId == 0
Main_DefaultTotalNumThrows == 5000000

Main_MPIOK(rc) == MPI_SUCCESS = rc

\* The static processArgs of main.cxx from position i on: [ret, total].
RECURSIVE Main_processArgsFrom(_, _, _)
Main_processArgsFrom(args, i, total) ==
    IF i > Len(args) THEN [ret |-> Main_ErrNone, total |-> total]
    ELSE IF (TokT = args[i]) \/ (TokThrows = args[i])
         THEN IF i + 1 > Len(args)
              THEN [ret |-> Main_ErrArgs, total |-> total]
              ELSE Main_processArgsFrom(args, i + 2,
                                        StreamExtract(args[i + 1], total))
         ELSE Main_processArgsFrom(args, i + 1, total)

Main_processArgs(args, total) == Main_processArgsFrom(args, 1, total)

\* MpiProcess(Comm = MPI_COMM_WORLD, managerTaskId = 0) of main.cxx and its
\* member initialisers.
Main_NewProcess ==
    [ pc |-> "Start",
      ret |-> Main_ErrNone,
      numTasks_ |-> 0,
      taskId_ |-> -1,
      managerTaskId_ |-> Main_DefaultManagerTaskId,
      taskName_ |-> <<>>,
      libVerStr_ |-> <<>>,
      totalNumThrows_ |-> Unset,
      numThrows |-> Unset,
      hits |-> Unset,
      sumHits |-> Unset,
      behaviourRet |-> Unset,
      calls |-> <<>>,
      invoked |-> <<>>,
      reported |-> <<>> ]

\* getTaskName and getVersionString of main.cxx: two transport queries
\* each, made once.
Main_getTaskName(l) ==
    IF l.taskName_ = <<>>
    THEN [Call(Call(l, "Comm_get_name", NoRoot, MPI_SUCCESS),
               "Get_processor_name", NoRoot, MPI_SUCCESS)
              EXCEPT !.taskName_ = <<"comm", l.taskId_, "host">>]
    ELSE l

Main_getVersionString(l) ==
    IF l.libVerStr_ = <<>>
    THEN [Call(Call(l, "Get_library_version", NoRoot, MPI_SUCCESS),
               "Get_version", NoRoot, MPI_SUCCESS)
              EXCEPT !.libVerStr_ = <<"lib", "API">>]
    ELSE l

\* The root mpiReduce and mpiReduceSum of main.cxx hand on.
Main_mpiReduceRoot(l, root) == IF -1 = root THEN l.managerTaskId_ ELSE root
Main_mpiReduceSumRoot(l, root) ==
    Main_mpiReduceRoot(l, IF -1 = root THEN l.managerTaskId_ ELSE root)

\* The roots the behaviours of main.cxx name: the manager broadcasts with
\* MPI_Bcast and reduces with mpiReduceSum, the worker calls MPI_Bcast and
\* MPI_Reduce itself, each with managerTaskId().
Main_ManagerBcastRoot(l) == l.managerTaskId_
Main_ManagerReduceRoot(l) == Main_mpiReduceSumRoot(l, -1)

\* Mutant: the worker of main.cxx names itself as the root of the broadcast.
Main_WorkerBcastRootOwnRank(l) == l.taskId_

Main_WorkerBcastRoot(l) == l.managerTaskId_
Main_WorkerReduceRoot(l) == l.managerTaskId_

\* throwDarts of main.cxx (sel picks the hits, as above).
Main_throwDarts(numDarts, sel) ==
    IF sel = "all" THEN numDarts ELSE numDarts \div 4

\* run of main.cxx, from MPI_Finalize to its return.
Main_runFinalize(l, rcFin) ==
    LET l1 == Call(l, "Finalize", NoRoot, rcFin)
        l2 == IF ~Main_MPIOK(rcFin) /\ (Main_ErrNone = l1.ret)
              THEN [l1 EXCEPT !.ret = Main_ErrFinalize]
              ELSE l1
    IN  [Main_getTaskName(l2) EXCEPT !.pc = "Done"]

\* run of main.cxx, from the behaviour's return (status bret) on.
Main_runAfterBehaviour(l, bret, rcColl, rcFin) ==
    LET l1 == [l EXCEPT !.ret = bret, !.behaviourRet = bret]
        l2 == Call(l1, "Barrier", NoRoot, rcColl)
    IN  IF Main_ErrNone # bret THEN Main_runFinalize(l1, rcFin)
        ELSE IF syncEnds_ /\ ~Main_MPIOK(rcColl)
             THEN Main_runFinalize([l2 EXCEPT !.ret = Main_ErrBarrier], rcFin)
        ELSE IF syncEnds_ THEN [l2 EXCEPT !.pc = "EndBarrier"]
        ELSE Main_runFinalize(l1, rcFin)

\* runAsManagerImpl of main.cxx, from its start to the broadcast call.
Main_runAsManagerImpl(l, args, rcColl, rcEnd, rcFin) ==
    LET l1 == Main_getVersionString([l EXCEPT !.invoked = Append(@, "manager")])
        pa == Main_processArgs(args, Main_DefaultTotalNumThrows)
        l2 == [l1 EXCEPT !.totalNumThrows_ = pa.total,
                         !.calls = Append(@, [op |-> "processArgs",
                                              root |-> NoRoot, rc |-> pa.ret])]
        l3 == Call(l2, "Bcast", Main_ManagerBcastRoot(l2), rcColl)
    IN  IF ~Main_MPIOK(pa.ret) THEN Main_runAfterBehaviour(l2, pa.ret, rcEnd, rcFin)
        ELSE IF ~Main_MPIOK(rcColl)
             THEN Main_runAfterBehaviour(l3, Main_ErrBcast, rcEnd, rcFin)
        ELSE [l3 EXCEPT !.pc = "MgrBcast"]

\* runAsManagerImpl of main.cxx, from the broadcast's return to the barrier
\* call.  A remainder by zero does what it does on the platform (ub).
Main_managerWork(l, sel, ub, rcColl, rcEnd, rcFin) ==
    LET quot == l.totalNumThrows_ \div l.numTasks_
        numThrows == IF quot = 0 THEN quot + l.totalNumThrows_
                     ELSE quot + (l.totalNumThrows_ % quot)
        l1 == [l EXCEPT !.numThrows = numThrows,
                        !.hits = Main_throwDarts(numThrows, sel),
                        !.sumHits = 0]
        l2 == Call(l1, "Barrier", NoRoot, rcColl)
    IN  IF quot = 0 /\ ub = "trap" THEN [l EXCEPT !.pc = "Crashed"]
        ELSE IF ~Main_MPIOK(rcColl)
             THEN Main_runAfterBehaviour(l2, Main_ErrBarrier, rcEnd, rcFin)
        ELSE [l2 EXCEPT !.pc = "MgrBarrier"]

\* runAsManagerImpl of main.cxx, from the barrier's return to the reduce call.
Main_managerReduce(l, rcColl, rcEnd, rcFin) ==
    LET l1 == Call(l, "Reduce", Main_ManagerReduceRoot(l), rcColl)
    IN  IF ~Main_MPIOK(rcColl)
        THEN Main_runAfterBehaviour(l1, Main_ErrReduce, rcEnd, rcFin)
        ELSE [l1 EXCEPT !.pc = "MgrReduce"]

\* runAsManagerImpl of main.cxx, from the reduce's return to its own return.
Main_managerReport(l, sum, rcEnd, rcFin) ==
    LET l1 == [l EXCEPT !.sumHits = sum,
                        !.reported = Append(@, [sumHits |-> sum,
                                                total |-> l.totalNumThrows_])]
        ret == SelectSeq(l.calls, LAMBDA c : c.op = "processArgs")[1].rc
    IN  Main_runAfterBehaviour(l1, ret, rcEnd, rcFin)

\* runAsWorkerImpl of main.cxx, from its start to the broadcast call.
Main_runAsWorkerImpl(l, args, rcColl, rcEnd, rcFin) ==
    LET l1 == [l EXCEPT !.invoked = Append(@, "worker"),
                        !.totalNumThrows_ = Main_DefaultTotalNumThrows]
        l2 == Call(l1, "Bcast", Main_WorkerBcastRoot(l1), rcColl)
    IN  IF ~Main_MPIOK(rcColl)
        THEN Main_runAfterBehaviour(l2, Main_ErrBcast, rcEnd, rcFin)
        ELSE [l2 EXCEPT !.pc = "WrkBcast"]

\* runAsWorkerImpl of main.cxx, from the broadcast's return to the barrier
\* call.
Main_workerWork(l, sel, rcColl, rcEnd, rcFin) ==
    LET numThrows == l.totalNumThrows_ \div l.numTasks_
        l1 == [l EXCEPT !.numThrows = numThrows,
                        !.hits = Main_throwDarts(numThrows, sel),
                        !.sumHits = 0]
        l2 == Call(l1, "Barrier", NoRoot, rcColl)
    IN  IF ~Main_MPIOK(rcColl)
        THEN Main_runAfterBehaviour(l2, Main_ErrBarrier, rcEnd, rcFin)
        ELSE [l2 EXCEPT !.pc = "WrkBarrier"]

\* runAsWorkerImpl of main.cxx, from the barrier's return to the reduce call.
Main_workerReduce(l, rcColl, rcEnd, rcFin) ==
    LET l1 == Call(l, "Reduce", Main_WorkerReduceRoot(l), rcColl)
    IN  IF ~Main_MPIOK(rcColl)
        THEN Main_runAfterBehaviour(l1, Main_ErrReduce, rcEnd, rcFin)
        ELSE [l1 EXCEPT !.pc = "WrkReduce"]

\* run of main.cxx, from the start barrier's return (or its skip) to the
\* behaviour's first collective call.
Main_runDispatch(l, rcColl, rcEnd, rcFin) ==
    IF l.managerTaskId_ = l.taskId_
    THEN Main_runAsManagerImpl(l, Tail(argv), rcColl, rcEnd, rcFin)
    ELSE Main_runAsWorkerImpl(l, Tail(argv), rcColl, rcEnd, rcFin)

\* run of main.cxx, from its start to the first collective call.
Main_runStart(l, p, rcInit, rcSize, rcRank, rcColl, rcEnd, rcFin) ==
    LET l1 == Call(l, "Init", NoRoot, rcInit)
        l2 == Call(l1, "Comm_size", NoRoot, rcSize)
        l3 == Call([l2 EXCEPT !.numTasks_ = worldSize], "Comm_rank", NoRoot, rcRank)
        l4 == Main_getTaskName([l3 EXCEPT !.taskId_ = RankOf(p)])
        l5 == Call(l4, "Barrier", NoRoot, rcColl)
    IN  IF ~Main_MPIOK(rcInit)
        THEN Main_runFinalize([l1 EXCEPT !.ret = Main_ErrInit], rcFin)
        ELSE IF ~Main_MPIOK(rcSize)
             THEN Main_runFinalize([l2 EXCEPT !.ret = Main_ErrCommSize], rcFin)
        ELSE IF ~Main_MPIOK(rcRank)
             THEN Main_runFinalize([l3 EXCEPT !.ret = Main_ErrCommRank], rcFin)
        ELSE IF syncStarts_ /\ ~Main_MPIOK(rcColl)
             THEN Main_runFinalize([l5 EXCEPT !.ret = Main_ErrBarrier], rcFin)
        ELSE IF syncStarts_ THEN [l5 EXCEPT !.pc = "StartBarrier"]
        ELSE Main_runDispatch(l4, rcColl, rcEnd, rcFin)

\* The steps of a process that runs main.cxx, over the same transport.
Main_RunStart(p) ==
    /\ proc[p].pc = "Start"
    /\ \E rcInit \in Rcs :
       \E rcSize \in RcsIf(Main_MPIOK(rcInit)) :
       \E rcRank \in RcsIf(Main_MPIOK(rcInit) /\ Main_MPIOK(rcSize)) :
       \E rcColl \in RcsIf(Main_MPIOK(rcInit) /\ Main_MPIOK(rcSize)
                               /\ Main_MPIOK(rcRank)) :
          \E rcFin \in RcsIf(Returns(
              Main_runStart(proc[p], p, rcInit, rcSize, rcRank, rcColl,
                            MPI_SUCCESS, MPI_SUCCESS))) :
          StepTo(p,
              Main_runStart(proc[p], p, rcInit, rcSize, rcRank, rcColl,
                            MPI_SUCCESS, rcFin))

Main_StartBarrierDone(p) ==
    /\ proc[p].pc = "StartBarrier"
    /\ BarrierComplete(p)
    /\ \E rcColl \in Rcs :
          \E rcFin \in RcsIf(Returns(
              Main_runDispatch(proc[p], rcColl, MPI_SUCCESS, MPI_SUCCESS))) :
          StepTo(p, Main_runDispatch(proc[p], rcColl, MPI_SUCCESS, rcFin))

Main_ManagerBcastDone(p) ==
    /\ proc[p].pc = "MgrBcast"
    /\ BcastComplete(LastCall(proc[p]).root)
    /\ \E sel \in HitOutcomes, ub \in UbOutcomes, rcColl \in Rcs :
          \E rcFin \in RcsIf(Returns(
              Main_managerWork(BcastDelivered(proc[p]), sel, ub, rcColl,
                               MPI_SUCCESS, MPI_SUCCESS))) :
          StepTo(p,
              Main_managerWork(BcastDelivered(proc[p]), sel, ub, rcColl,
                               MPI_SUCCESS, rcFin))

Main_ManagerBarrierDone(p) ==
    /\ proc[p].pc = "MgrBarrier"
    /\ BarrierComplete(p)
    /\ \E rcColl \in Rcs :
          \E rcFin \in RcsIf(Returns(
              Main_managerReduce(proc[p], rcColl, MPI_SUCCESS, MPI_SUCCESS))) :
          StepTo(p, Main_managerReduce(proc[p], rcColl, MPI_SUCCESS, rcFin))

Main_ManagerReduceDone(p) ==
    /\ proc[p].pc = "MgrReduce"
    /\ ReduceComplete(p, LastCall(proc[p]).root)
    /\ \E rcEnd \in RcsIf(syncEnds_) :
          \E rcFin \in RcsIf(Returns(
              Main_managerReport(proc[p], ReduceDelivered(p, proc[p]),
                                 rcEnd, MPI_SUCCESS))) :
          StepTo(p,
              Main_managerReport(proc[p], ReduceDelivered(p, proc[p]),
                                 rcEnd, rcFin))

Main_WorkerBcastDone(p) ==
    /\ proc[p].pc = "WrkBcast"
    /\ BcastComplete(LastCall(proc[p]).root)
    /\ \E sel \in HitOutcomes, rcColl \in Rcs :
          \E rcFin \in RcsIf(Returns(
              Main_workerWork(BcastDelivered(proc[p]), sel, rcColl,
                              MPI_SUCCESS, MPI_SUCCESS))) :
          StepTo(p,
              Main_workerWork(BcastDelivered(proc[p]), sel, rcColl,
                              MPI_SUCCESS, rcFin))

Main_WorkerBarrierDone(p) ==
    /\ proc[p].pc = "WrkBarrier"
    /\ BarrierComplete(p)
    /\ \E rcColl \in Rcs :
          \E rcFin \in RcsIf(Returns(
              Main_workerReduce(proc[p], rcColl, MPI_SUCCESS, MPI_SUCCESS))) :
          StepTo(p, Main_workerReduce(proc[p], rcColl, MPI_SUCCESS, rcFin))

Main_WorkerReduceDone(p) ==
    /\ proc[p].pc = "WrkReduce"
    /\ ReduceComplete(p, LastCall(proc[p]).root)
    /\ \E rcEnd \in RcsIf(syncEnds_) :
          \E rcFin \in RcsIf(Returns(
              Main_runAfterBehaviour(proc[p], Main_ErrNone, rcEnd, MPI_SUCCESS))) :
          StepTo(p,
              Main_runAfterBehaviour(proc[p], Main_ErrNone, rcEnd, rcFin))

Main_EndBarrierDone(p) ==
    /\ proc[p].pc = "EndBarrier"
    /\ BarrierComplete(p)
    /\ \E rcFin \in Rcs : StepTo(p, Main_runFinalize(proc[p], rcFin))

Main_Step(p) ==
    \/ Main_RunStart(p)
    \/ Main_StartBarrierDone(p)
    \/ Main_ManagerBcastDone(p)
    \/ Main_ManagerBarrierDone(p)
    \/ Main_ManagerReduceDone(p)
    \/ Main_WorkerBcastDone(p)
    \/ Main_WorkerBarrierDone(p)
    \/ Main_WorkerReduceDone(p)
    \/ Main_EndBarrierDone(p)

Main_Next == \E p \in Procs : Main_Step(p)

\* ------------------------------ the two programs on the same inputs
\* The transport calls of a log whose result decides the status, each with
\* its root.
RECURSIVE TransportCalls(_)
TransportCalls(calls) ==
    IF calls = <<>> THEN <<>>
    ELSE (IF Head(calls).op \in TestedOps
          THEN <<[op |-> Head(calls).op, root |-> Head(calls).root]>>
          ELSE <<>>)
         \o TransportCalls(Tail(calls))

\* What a run of the group showed: per process its transport calls, its
\* share of the throws, its exit code (Unset: it did not return) and where
\* it is.
TwinOutcome ==
    [ calls |-> [p \in Procs |-> TransportCalls(proc[p].calls)],
      share |-> [p \in Procs |-> proc[p].numThrows],
      exit |-> [p \in Procs |-> IF proc[p].pc = "Done" THEN proc[p].ret ELSE Unset],
      at |-> [p \in Procs |-> proc[p].pc] ]

\* The group ran the class-based program; it is started again, on the same
\* inputs, with the program of main.cxx.
RunMain ==
    /\ firstRun = NoRun
    /\ AtRest
    /\ firstRun' = TwinOutcome
    /\ proc' = [p \in Procs |-> Main_NewProcess]
    /\ barrierCount' = [p \in Procs |-> 0]
    /\ bcastBuf' = [r \in Procs |-> NoData]
    /\ reduceBuf' = [p \in Procs |-> NoData]
    /\ faults' = 0
    /\ UNCHANGED <<worldSize, argv, syncStarts_, syncEnds_, plan>>

TwinInit ==
    /\ worldSize \in 1..MaxTasks
    /\ argv \in Argvs
    /\ syncStarts_ \in BOOLEAN
    /\ syncEnds_ \in BOOLEAN
    /\ GroupStart
    /\ plan \in Plans
    /\ firstRun = NoRun

TwinNext ==
    \/ (firstRun = NoRun /\ Next)
    \/ RunMain
    \/ (firstRun # NoRun /\ Main_Next)

TwinSpec == TwinInit /\ [][TwinNext]_vars

\* ================================================================ claims
\* What the claims speak of.
IsPrefix(s, t) == Len(s) <= Len(t) /\ \A i \in 1..Len(s) : s[i] = t[i]

CollectiveOps == {"Barrier", "Bcast", "Reduce"}
IsCollective(c) == c.op \in CollectiveOps

RECURSIVE OpRoots(_)
OpRoots(calls) ==
    IF calls = <<>> THEN <<>>
    ELSE <<<<Head(calls).op, Head(calls).root>>>> \o OpRoots(Tail(calls))

\* The collective operations a process issued, in order, each with its root.
IssuedCollectives(l) == OpRoots(SelectSeq(l.calls, IsCollective))

CountOp(l, op) == Len(SelectSeq(l.calls, LAMBDA c : c.op = op))

\* The rank the group is configured to have as manager.
ManagerRank == DefaultManagerTaskId

BehaviourSequence ==
    << <<"Bcast", ManagerRank>>, <<"Barrier", NoRoot>>, <<"Reduce", ManagerRank>> >>

\* The one sequence of collective operations of a run.
FixedSequence ==
    (IF syncStarts_ THEN << <<"Barrier", NoRoot>> >> ELSE <<>>)
    \o BehaviourSequence
    \o (IF syncEnds_ THEN << <<"Barrier", NoRoot>> >> ELSE <<>>)

StartBarriers == IF syncStarts_ THEN 1 ELSE 0

\* The program as built: MpiProcess::syncStarts_{ true }, syncEnds_{ false }.
AsBuilt == syncStarts_ /\ ~syncEnds_

\* The total the manager derives from the command line, and its status.
ManagerArgs == processArgs(StripProgramName(argv), DefaultTotalNumThrows)
ManagerTotal == ManagerArgs.total

\* C1: at every point the collective operations a process has issued are a
\* prefix of the fixed sequence (start barrier if enabled, broadcast rooted
\* at the manager, barrier, reduce rooted at the manager, end barrier if
\* enabled), for the manager and the workers alike; and a process whose
\* behaviour returned success issued broadcast, barrier and reduce exactly
\* once each, in that order.
C1_CollectiveOrder ==
    \A p \in Procs :
        LET l == proc[p]
            issued == IssuedCollectives(l)
        IN  /\ IsPrefix(issued, FixedSequence)
            /\ (l.behaviourRet = ErrNone) =>
                  /\ Len(issued) >= StartBarriers + 3
                  /\ SubSeq(issued, StartBarriers + 1, StartBarriers + 3)
                        = BehaviourSequence
                  /\ CountOp(l, "Bcast") = 1
                  /\ CountOp(l, "Reduce") = 1

\* A worker of a group of three whose behaviour returned success, with both
\* barriers of run enabled, and that went through all five collectives.
C1_Witness ==
    /\ worldSize = 3
    /\ syncStarts_ /\ syncEnds_
    /\ \E p \in Procs :
          /\ proc[p].invoked = <<"worker">>
          /\ proc[p].behaviourRet = ErrNone
          /\ proc[p].pc = "Done"
          /\ Len(IssuedCollectives(proc[p])) = 5

\* The throws of all processes of the group together.
RECURSIVE ThrowsUpTo(_)
ThrowsUpTo(n) == IF n < 0 THEN 0 ELSE proc[n].numThrows + ThrowsUpTo(n - 1)

AllSharesComputed == \A p \in Procs : proc[p].numThrows # Unset

\* C2: for every group size S >= 1 and total T >= S, the manager's share
\* plus the S-1 worker shares is exactly T (checked on the program as built).
C2_SharesSumToTotal ==
    (AsBuilt /\ AllSharesComputed /\ ManagerTotal >= worldSize)
        => ThrowsUpTo(worldSize - 1) = ManagerTotal

ArgsMalformed == ManagerArgs.ret = ErrArgs

\* C3: when the manager's arguments hold -t or --throws with no value after
\* it, the manager fails with ErrArgs before any broadcast, and no worker
\* stays inside its broadcast call forever: while a worker is inside it, the
\* group can still take a step (a group that cannot leaves the worker there
\* for good).  Checked on the program as built.
C3_WorkersLeaveBcast ==
    (AsBuilt /\ ArgsMalformed) =>
        /\ \A p \in Procs :
              (proc[p].invoked = <<"manager">>)
                  => (CountOp(proc[p], "Bcast") = 0
                      /\ proc[p].behaviourRet = ErrArgs)
        /\ (\E w \in Procs : proc[w].pc = "WrkBcast") => ENABLED Next

\* The steps of run's lifecycle other than finalize.
LifecycleOps ==
    {"Init", "Comm_size", "Comm_rank", "Barrier", "Bcast", "Reduce", "processArgs"}

FinalizeIndexes(l) == {i \in 1..Len(l.calls) : l.calls[i].op = "Finalize"}

\* C4: on every path through run that returns, finalize is attempted exactly
\* once, after every other step of the lifecycle; run does not return
\* without it, and nothing of the lifecycle follows it.
C4_FinalizeExactlyOnce ==
    \A p \in Procs :
        LET l == proc[p]
        IN  /\ (l.pc = "Done") => Cardinality(FinalizeIndexes(l)) = 1
            /\ \A f \in FinalizeIndexes(l) :
                  /\ l.pc = "Done"
                  /\ \A i \in 1..Len(l.calls) :
                        (l.calls[i].op \in LifecycleOps) => i < f

\* A group of several processes in which run returned, on one process, after
\* a behaviour that succeeded and an end barrier that failed: finalize
\* follows the failed step.
C4_Witness ==
    /\ worldSize > 1
    /\ \E p \in Procs :
          /\ proc[p].pc = "Done"
          /\ proc[p].behaviourRet = ErrNone
          /\ proc[p].ret = ErrBarrier
          /\ Cardinality(FinalizeIndexes(proc[p])) = 1

\* The error a failed step stands for.
ErrOf(c) ==
    CASE c.op = "Init" -> ErrInit
      [] c.op = "Comm_size" -> ErrCommSize
      [] c.op = "Comm_rank" -> ErrCommRank
      [] c.op = "Barrier" -> ErrBarrier
      [] c.op = "Bcast" -> ErrBcast
      [] c.op = "Reduce" -> ErrReduce
      [] c.op = "Finalize" -> ErrFinalize
      [] c.op = "processArgs" -> c.rc
      [] OTHER -> ErrNone

FailedSteps(l) == SelectSeq(l.calls, LAMBDA c : ~MPIOK(c.rc))

\* The first error of the run so far (ErrNone when there is none).
FirstError(l) ==
    IF FailedSteps(l) = <<>> THEN ErrNone ELSE ErrOf(Head(FailedSteps(l)))

\* C5: the status of run is the first error recorded during the run (0 when
\* none): no later failure replaces it, a failing finalize gives ErrFinalize
\* only when nothing failed before it, and an init failure followed by a
\* finalize failure returns ErrInit.
C5_FirstErrorWins ==
    \A p \in Procs :
        LET l == proc[p]
        IN  /\ l.ret = FirstError(l)
            /\ (l.pc = "Done" /\ ~MPIOK(l.calls[1].rc)
                    /\ \E f \in FinalizeIndexes(l) : ~MPIOK(l.calls[f].rc))
                  => l.ret = ErrInit

\* run returned after init failed and finalize failed too.
C5_Witness ==
    \E p \in Procs :
        /\ proc[p].pc = "Done"
        /\ proc[p].calls[1].op = "Init" /\ ~MPIOK(proc[p].calls[1].rc)
        /\ \E f \in FinalizeIndexes(proc[p]) : ~MPIOK(proc[p].calls[f].rc)

\* The hits of all processes of the group together.
RECURSIVE HitsUpTo(_)
HitsUpTo(n) == IF n < 0 THEN 0 ELSE proc[n].hits + HitsUpTo(n - 1)

SucceededBefore(l, op, n) ==
    \E i \in 1..Len(l.calls) :
        l.calls[i].op = op /\ MPIOK(l.calls[i].rc) /\ i > n

\* C6: the aggregate the manager reports is the sum of the PartialResults
\* of all S processes, its own included; the manager reports at most once,
\* only after its barrier and its reduce both succeeded; no worker reads or
\* reports the reduced sum.
C6_AggregateIsSumOfPartials ==
    \A p \in Procs :
        LET l == proc[p]
        IN  /\ Len(l.reported) <= 1
            /\ (l.reported # <<>>) =>
                  /\ RankOf(p) = ManagerRank
                  /\ \A q \in Procs : proc[q].hits # Unset
                  /\ l.reported[1].sumHits = HitsUpTo(worldSize - 1)
                  /\ l.reported[1].total = ManagerTotal
                  /\ \E b \in 1..Len(l.calls) :
                        /\ l.calls[b].op = "Bcast"
                        /\ \E i \in (b + 1)..Len(l.calls) :
                              /\ l.calls[i].op = "Barrier" /\ MPIOK(l.calls[i].rc)
                              /\ SucceededBefore(l, "Reduce", i)
            /\ (RankOf(p) # ManagerRank) =>
                  l.reported = <<>> /\ l.sumHits \in {Unset, 0}

\* The manager of a group of three reported an aggregate that is more than
\* its own hits.
C6_Witness ==
    /\ worldSize = 3
    /\ \E p \in Procs :
          /\ proc[p].reported # <<>>
          /\ proc[p].reported[1].sumHits > proc[p].hits
          /\ proc[p].hits > 0

AllDone == \A p \in Procs : proc[p].pc = "Done"

\* How far a process is through run.
PcRank(pc) ==
    CASE pc = "Start" -> 0
      [] pc = "StartBarrier" -> 1
      [] pc \in {"MgrBcast", "WrkBcast"} -> 2
      [] pc \in {"MgrBarrier", "WrkBarrier"} -> 3
      [] pc \in {"MgrReduce", "WrkReduce"} -> 4
      [] pc = "EndBarrier" -> 5
      [] OTHER -> 6

CleanRun == faults = 0 /\ ~ArgsMalformed /\ ManagerTotal >= worldSize

\* C7: in a run where no transport operation fails, the manager's arguments
\* are well-formed and T >= S, every process finishes run with status 0: no
\* process dies, a process that returned returned 0, the group is never
\* stuck before every process returned, and every step takes one process
\* further through run (so the fair run ends, with all returned).
C7_CleanRunFinishes ==
    /\ [](CleanRun =>
            /\ \A p \in Procs :
                  /\ proc[p].pc # "Crashed"
                  /\ (proc[p].pc = "Done") => (proc[p].ret = ErrNone)
            /\ AllDone \/ ENABLED Next)
    /\ [][\E p \in Procs :
            /\ PcRank(proc'[p].pc) > PcRank(proc[p].pc)
            /\ \A q \in Procs \ {p} : proc'[q] = proc[q]]_vars

\* A clean run of a group of three in which every process returned 0.
C7_Witness ==
    /\ CleanRun
    /\ worldSize = 3
    /\ AllDone
    /\ \A p \in Procs : proc[p].ret = ErrNone

FailedCollectives(l) ==
    {i \in 1..Len(l.calls) : IsCollective(l.calls[i]) /\ ~MPIOK(l.calls[i].rc)}

\* Every transport call that failed so far, on any process, is a collective.
OnlyCollectivesFailed ==
    \A p \in Procs : \A i \in 1..Len(proc[p].calls) :
        (proc[p].calls[i].op # "processArgs" /\ ~MPIOK(proc[p].calls[i].rc))
            => IsCollective(proc[p].calls[i])

\* C8: when a collective operation fails on a process, the process calls no
\* collective after it and returns the error as its status, and its peers
\* do not hang: while a peer is inside a collective the group can still
\* take a step.  The hang is looked for in the program as built, with
\* well-formed arguments, T >= S and no other transport call failing.
C8_FailedCollectiveNoHang ==
    \A p \in Procs : \A i \in FailedCollectives(proc[p]) :
        /\ \A j \in (i + 1)..Len(proc[p].calls) : ~IsCollective(proc[p].calls[j])
        /\ proc[p].pc = "Done"
        /\ proc[p].ret = ErrOf(proc[p].calls[i])
        /\ (AsBuilt /\ ~ArgsMalformed /\ ManagerTotal >= worldSize
               /\ OnlyCollectivesFailed
               /\ \E q \in Procs \ {p} : InCollective(proc[q]))
              => ENABLED Next

\* C9: whenever a process computes its share or starts its local work, the
\* RunConfig total it uses is the total the manager derived from its
\* arguments, and it stays so from then on: no process works with the
\* default or another total, none changes it after the broadcast.
C9_SameTotalEverywhere ==
    \A p \in Procs :
        (proc[p].numThrows # Unset) => (proc[p].totalNumThrows_ = ManagerTotal)

\* A worker computed its share from a total that is not the default.
C9_Witness ==
    \E p \in Procs :
        /\ proc[p].invoked = <<"worker">>
        /\ proc[p].numThrows # Unset
        /\ proc[p].totalNumThrows_ # DefaultTotalNumThrows
        /\ proc[p].pc = "Done"

Managers == {p \in Procs : proc[p].invoked = <<"manager">>}
Workers == {p \in Procs : proc[p].invoked = <<"worker">>}

\* C10: one call of run invokes at most one behaviour, at most once: the
\* manager behaviour exactly when the rank is the configured manager rank,
\* the worker behaviour for any other rank; of a group of S processes whose
\* runs all reached the dispatch, exactly one runs as manager and S-1 as
\* workers.
C10_OneBehaviourPerRun ==
    /\ \A p \in Procs :
          /\ Len(proc[p].invoked) <= 1
          /\ proc[p].managerTaskId_ = ManagerRank
          /\ (proc[p].invoked # <<>>) =>
                ((proc[p].invoked[1] = "manager") <=> (RankOf(p) = ManagerRank))
    /\ Cardinality(Managers) <= 1
    /\ (\A p \in Procs : proc[p].invoked # <<>>) =>
          /\ Cardinality(Managers) = 1
          /\ Cardinality(Workers) = worldSize - 1

\* Every process of a group of three was dispatched.
C10_Witness ==
    /\ worldSize = 3
    /\ \A p \in Procs : proc[p].invoked # <<>>

\* The steps a process made after it called processArgs.
AfterProcessArgs(l) ==
    LET i == CHOOSE i \in 1..Len(l.calls) : l.calls[i].op = "processArgs"
    IN  SubSeq(l.calls, i + 1, Len(l.calls))

ProcessArgsFailed(l) ==
    \E i \in 1..Len(l.calls) :
        l.calls[i].op = "processArgs" /\ l.calls[i].rc = ErrArgs

\* C11: a manager whose processArgs gave ErrArgs returns ErrArgs from its
\* behaviour and from run, and never proceeds to the broadcast: after
\* processArgs it issues no broadcast, barrier or reduce (finalize only), it
\* computes no share, throws no dart and reports nothing, and nothing is
\* ever broadcast from it.
C11_ArgsErrorStopsManager ==
    \A p \in Procs :
        LET l == proc[p]
        IN  ProcessArgsFailed(l) =>
                /\ l.invoked = <<"manager">>
                /\ l.behaviourRet = ErrArgs
                /\ l.ret = ErrArgs
                /\ l.pc = "Done"
                /\ SelectSeq(AfterProcessArgs(l), IsCollective) = <<>>
                /\ CountOp(l, "Bcast") = 0 /\ CountOp(l, "Reduce") = 0
                /\ l.numThrows = Unset /\ l.hits = Unset /\ l.sumHits = Unset
                /\ l.reported = <<>>
                /\ bcastBuf[p] = NoData

\* The manager of a group of three was started with "-t 5 -t" and returned.
C11_Witness ==
    /\ worldSize = 3
    /\ argv = <<TokProg, TokT, Tok5, TokT>>
    /\ \E p \in Procs : ProcessArgsFailed(proc[p]) /\ proc[p].pc = "Done"

\* A process that left run without completing broadcast, barrier and reduce.
Diverged(l) == l.pc \in {"Done", "Crashed"} /\ l.behaviourRet # ErrNone

SomeWorkerDiverged ==
    \E w \in Procs : RankOf(w) # ManagerRank /\ Diverged(proc[w])

\* C13: once a process has diverged from broadcast, barrier, reduce, the
\* manager has reported no aggregate and has not returned 0, and never
\* does; an aggregate is reported only when all S processes contributed to
\* the reduce; and when a worker diverged and the group has come to rest, a
\* manager that met no failure of its own is inside a collective call (it
\* hangs) rather than returned.
C13_DivergenceIsNotSuccess ==
    \A m \in Procs :
        (RankOf(m) = ManagerRank) =>
            /\ (\E p \in Procs : Diverged(proc[p])) =>
                   /\ proc[m].reported = <<>>
                   /\ ~(proc[m].pc = "Done" /\ proc[m].ret = ErrNone)
            /\ (proc[m].reported # <<>>) =>
                   \A q \in Procs : reduceBuf[q] # NoData
            /\ (SomeWorkerDiverged /\ ~ENABLED Next
                    /\ FailedSteps(proc[m]) = <<>> /\ proc[m].pc # "Crashed")
                  => InCollective(proc[m])

\* A worker of a group of three returned ErrBcast, and the manager is left
\* inside its behaviour barrier with nothing in the group able to move.
C13_Witness ==
    /\ worldSize = 3
    /\ \E w \in Procs : proc[w].pc = "Done" /\ proc[w].behaviourRet = ErrBcast
    /\ \E m \in Procs : proc[m].pc = "MgrBarrier"
    /\ ~ENABLED Next

\* C14 (checked under RepeatSpec): a second run of the group with the same
\* size, command line, transport outcomes and per-rank estimator gives, in
\* whatever order its processes run, the exit code the first run gave on
\* every rank and the aggregate the first run reported on the manager; at
\* rest the two outcomes are the same (a rank that hung or died does so in
\* both).
C14_SameInputsSameOutcome ==
    (firstRun # NoRun) =>
        /\ \A p \in Procs :
              /\ (proc[p].pc = "Done") => (proc[p].ret = firstRun.exit[p])
              /\ (proc[p].reported # <<>>) =>
                    (proc[p].reported = firstRun.aggregate[p])
        /\ AtRest => (Outcome = firstRun)

\* Both runs of a group of three are over: the manager reported an
\* aggregate and one rank returned ErrFinalize.
C14_Witness ==
    /\ firstRun # NoRun
    /\ AtRest
    /\ worldSize = 3
    /\ \E m \in Procs : proc[m].reported # <<>>
    /\ \E p \in Procs : proc[p].pc = "Done" /\ proc[p].ret = ErrFinalize

\* The size query, the rank query succeeded on the process.
Succeeded(l, op) ==
    \E i \in 1..Len(l.calls) : l.calls[i].op = op /\ MPIOK(l.calls[i].rc)
SizeKnown(l) == Succeeded(l, "Comm_size")
RankKnown(l) == Succeeded(l, "Comm_rank")

\* C15: a process holds its initial size 0 and rank -1 until the size and
\* the rank query set them, to the size of the group and to a rank in
\* [0, size) that no other process has; from then on no step of run changes
\* them; and the configured manager rank never changes.
C15_SizeAndRankSetOnce ==
    /\ [](\A p \in Procs :
            /\ proc[p].numTasks_ = (IF SizeKnown(proc[p]) THEN worldSize ELSE 0)
            /\ IF RankKnown(proc[p])
               THEN /\ proc[p].taskId_ \in 0..(proc[p].numTasks_ - 1)
                    /\ \A q \in Procs \ {p} :
                          RankKnown(proc[q]) => proc[q].taskId_ # proc[p].taskId_
               ELSE proc[p].taskId_ = -1
            /\ proc[p].managerTaskId_ = DefaultManagerTaskId)
    /\ [][\A p \in Procs :
            /\ SizeKnown(proc[p]) => (proc'[p].numTasks_ = proc[p].numTasks_)
            /\ RankKnown(proc[p]) => (proc'[p].taskId_ = proc[p].taskId_)
            /\ proc'[p].managerTaskId_ = proc[p].managerTaskId_
            /\ worldSize' = worldSize]_vars

\* The last rank of a group of three went through the whole of run, both
\* barriers of run included, and returned 0.
C15_Witness ==
    /\ worldSize = 3
    /\ syncStarts_ /\ syncEnds_
    /\ \E p \in Procs :
          /\ proc[p].pc = "Done" /\ proc[p].ret = ErrNone
          /\ proc[p].taskId_ = 2 /\ proc[p].numTasks_ = 3

\* The place in the log of the first call of op (0: none), and whether that
\* call failed.
FirstOf(l, op) ==
    IF CountOp(l, op) = 0 THEN 0
    ELSE CHOOSE i \in 1..Len(l.calls) :
            l.calls[i].op = op /\ \A j \in 1..(i - 1) : l.calls[j].op # op
FirstFailed(l, op) == FirstOf(l, op) # 0 /\ ~MPIOK(l.calls[FirstOf(l, op)].rc)

\* The process made none of the calls ops and no behaviour was dispatched;
\* it made its one finalize call and returned.
OnlyFinalizeAfter(l, ops) ==
    /\ \A op \in ops : CountOp(l, op) = 0
    /\ l.invoked = <<>> /\ l.behaviourRet = Unset
    /\ CountOp(l, "processArgs") = 0
    /\ CountOp(l, "Finalize") = 1
    /\ l.pc = "Done"

\* C16: a failed init records ErrInit and no size query, rank query,
\* barrier or behaviour follows; a failed size query records ErrCommSize and
\* no rank query, barrier or behaviour follows; a failed rank query records
\* ErrCommRank and no barrier or behaviour follows; with start
\* synchronization enabled, a failed start barrier (the first barrier of the
\* run) records ErrBarrier, neither behaviour is dispatched and no other
\* collective is issued.  Finalize is called in each case.
C16_EarlyFailureShortCircuits ==
    \A p \in Procs :
        LET l == proc[p]
        IN  /\ FirstFailed(l, "Init") =>
                  /\ l.ret = ErrInit
                  /\ OnlyFinalizeAfter(l, {"Comm_size", "Comm_rank"} \cup CollectiveOps)
            /\ FirstFailed(l, "Comm_size") =>
                  /\ l.ret = ErrCommSize
                  /\ OnlyFinalizeAfter(l, {"Comm_rank"} \cup CollectiveOps)
            /\ FirstFailed(l, "Comm_rank") =>
                  /\ l.ret = ErrCommRank
                  /\ OnlyFinalizeAfter(l, CollectiveOps)
            /\ (syncStarts_ /\ FirstFailed(l, "Barrier")) =>
                  /\ l.ret = ErrBarrier
                  /\ CountOp(l, "Barrier") = 1
                  /\ OnlyFinalizeAfter(l, {"Bcast", "Reduce"})

\* In one group, run returned after a failed rank query on one process and
\* after a failed start barrier on another.
C16_Witness ==
    /\ syncStarts_
    /\ \E p \in Procs : FirstFailed(proc[p], "Comm_rank") /\ proc[p].pc = "Done"
    /\ \E p \in Procs : FirstFailed(proc[p], "Barrier") /\ proc[p].pc = "Done"

\* The barriers a process called after its reduce call: the end barrier.
EndBarrierCalls(l) ==
    {j \in 1..Len(l.calls) :
        /\ l.calls[j].op = "Barrier"
        /\ \E i \in 1..(j - 1) : l.calls[i].op = "Reduce"}

\* The last step of the lifecycle a process made before finalize.
LastLifecycleCall(l) ==
    l.calls[CHOOSE i \in 1..Len(l.calls) :
                /\ l.calls[i].op \in LifecycleOps
                /\ \A j \in (i + 1)..Len(l.calls) : l.calls[j].op \notin LifecycleOps]

\* C17: once the behaviour of a process has returned, the process has called
\* the end barrier (once) exactly when the behaviour returned ErrNone and
\* end synchronization is enabled; after a behaviour that returned an error
\* the failed step is the last before finalize and the error is the status
\* of run; a failed end barrier gives ErrBarrier, with the behaviour invoked
\* once and its broadcast and reduce made once.
C17_EndBarrierOnlyAfterSuccess ==
    \A p \in Procs :
        LET l == proc[p]
        IN  (l.behaviourRet # Unset) =>
                /\ Cardinality(EndBarrierCalls(l))
                      = (IF l.behaviourRet = ErrNone /\ syncEnds_ THEN 1 ELSE 0)
                /\ (l.behaviourRet # ErrNone) =>
                      /\ l.ret = l.behaviourRet
                      /\ ~MPIOK(LastLifecycleCall(l).rc)
                      /\ ErrOf(LastLifecycleCall(l)) = l.behaviourRet
                      /\ l.pc = "Done"
                /\ (\E j \in EndBarrierCalls(l) : ~MPIOK(l.calls[j].rc)) =>
                      /\ l.ret = ErrBarrier
                      /\ l.behaviourRet = ErrNone
                      /\ Len(l.invoked) = 1
                      /\ CountOp(l, "Bcast") = 1 /\ CountOp(l, "Reduce") = 1
                      /\ l.pc = "Done"

\* The manager of a group of three reported the aggregate, then its end
\* barrier failed and run returned ErrBarrier; a worker of the same group
\* went into the end barrier.
C17_Witness ==
    /\ worldSize = 3
    /\ \E m \in Procs :
          /\ proc[m].reported # <<>>
          /\ proc[m].pc = "Done" /\ proc[m].ret = ErrBarrier
    /\ \E w \in Procs : proc[w].pc = "EndBarrier"

\* The barrier of the behaviour: the first barrier called after the
\* broadcast (0: none).
BehaviourBarrier(l) ==
    LET after == {j \in 1..Len(l.calls) :
                     /\ l.calls[j].op = "Barrier"
                     /\ FirstOf(l, "Bcast") # 0 /\ j > FirstOf(l, "Bcast")}
    IN  IF after = {} THEN 0 ELSE CHOOSE j \in after : \A k \in after : j <= k

\* The behaviour, and run with it, ended with status err and nothing of the
\* lifecycle but finalize followed the call at place i.
FatalAt(l, i, err) ==
    /\ l.behaviourRet = err /\ l.ret = err
    /\ \A j \in (i + 1)..Len(l.calls) : l.calls[j].op \notin LifecycleOps
    /\ l.reported = <<>>
    /\ l.pc = "Done"

\* C18: in the manager and in the worker behaviour alike, a failed
\* broadcast returns ErrBcast with no share computed, no throw, no barrier
\* and no reduce after it; a failed behaviour barrier returns ErrBarrier
\* with no reduce after it; a failed reduce returns ErrReduce with nothing
\* received and, on the manager, nothing reported.
C18_BehaviourFailureIsFatal ==
    \A p \in Procs :
        LET l == proc[p]
            b == BehaviourBarrier(l)
        IN  /\ FirstFailed(l, "Bcast") =>
                  /\ FatalAt(l, FirstOf(l, "Bcast"), ErrBcast)
                  /\ l.numThrows = Unset /\ l.hits = Unset
                  /\ b = 0 /\ CountOp(l, "Reduce") = 0
            /\ (b # 0 /\ ~MPIOK(l.calls[IF b = 0 THEN 1 ELSE b].rc)) =>
                  /\ FatalAt(l, b, ErrBarrier)
                  /\ CountOp(l, "Reduce") = 0
            /\ FirstFailed(l, "Reduce") =>
                  /\ FatalAt(l, FirstOf(l, "Reduce"), ErrReduce)
                  /\ l.sumHits = 0
                  /\ reduceBuf[p] = NoData

\* Of a group of three, a worker returned ErrReduce from its behaviour
\* while the manager is inside its reduce.
C18_Witness ==
    /\ worldSize = 3
    /\ \E w \in Procs :
          /\ proc[w].invoked = <<"worker">>
          /\ proc[w].pc = "Done" /\ proc[w].behaviourRet = ErrReduce
    /\ \E m \in Procs :
          /\ proc[m].invoked = <<"manager">>
          /\ proc[m].pc = "MgrReduce"

\* Some process has called its reduce.
ReduceStarted == \E p \in Procs : CountOp(proc[p], "Reduce") > 0

\* C19: when a process has called its reduce, every process of the group
\* holds the manager's total, has its hits and has entered the behaviour
\* barrier; what a process gave to the reduce is its hits; and the hits of a
\* process, once there, are never changed.
C19_ReduceAfterAllReachedBarrier ==
    /\ [](ReduceStarted =>
            \A q \in Procs :
                /\ proc[q].totalNumThrows_ = ManagerTotal
                /\ proc[q].numThrows # Unset /\ proc[q].hits # Unset
                /\ BehaviourBarrier(proc[q]) # 0
                /\ MPIOK(proc[q].calls[BehaviourBarrier(proc[q])].rc)
                /\ (reduceBuf[q] # NoData) => (reduceBuf[q][2] = proc[q].hits))
    /\ [][\A q \in Procs :
            (proc[q].hits # Unset) => (proc'[q].hits = proc[q].hits)]_vars

\* In a group of three one process is inside its reduce while another has
\* not yet come back from the behaviour barrier.
C19_Witness ==
    /\ worldSize = 3
    /\ \E p \in Procs : proc[p].pc \in {"MgrReduce", "WrkReduce"}
    /\ \E q \in Procs : proc[q].pc \in {"MgrBarrier", "WrkBarrier"}

\* C20: a process makes no call to the transport after its finalize call,
\* on any path through run: the finalize call is the last of its log, also
\* where init, the size query or the rank query failed and the task name
\* was not built for a 'started' banner.  Checked on the program as built.
C20_NoTransportCallAfterFinalize ==
    AsBuilt =>
        \A p \in Procs :
            \A f \in FinalizeIndexes(proc[p]) :
                \A j \in (f + 1)..Len(proc[p].calls) :
                    proc[p].calls[j].op = "processArgs"

\* The manager has evaluated its share (or died doing so).
ShareEvaluated(l) ==
    l.invoked = <<"manager">> /\ (l.numThrows # Unset \/ l.pc = "Crashed")

\* C21: when the manager evaluates T mod (T/S), the divisor T/S is at least
\* 1, for every total processArgs can give (a total below the group size
\* and 0 included) and every group size; no process dies of a remainder by
\* zero.  Checked on the program as built.
C21_DivisorAtLeastOne ==
    AsBuilt =>
        \A p \in Procs :
            /\ proc[p].pc # "Crashed"
            /\ ShareEvaluated(proc[p]) =>
                  (proc[p].totalNumThrows_ \div proc[p].numTasks_) >= 1

\* C22 (checked under TwinSpec): the program of main.cxx, run by the group on
\* the size, command line, transport outcomes and per-rank estimator of a
\* run of the class-based program, does what that run did: at every point
\* the transport calls (with roots) each of its processes has made are a
\* prefix of those of the class-based run, its share and exit code are the
\* class-based ones, and at rest the two runs are the same call for call,
\* share for share and status for status (a rank that hung or died does so
\* in both).
C22_SingleFileSameAsClasses ==
    (firstRun # NoRun) =>
        /\ \A p \in Procs :
              /\ IsPrefix(TransportCalls(proc[p].calls), firstRun.calls[p])
              /\ (proc[p].numThrows # Unset) =>
                    (proc[p].numThrows = firstRun.share[p])
              /\ (proc[p].pc = "Done") => (proc[p].ret = firstRun.exit[p])
        /\ AtRest => (TwinOutcome = firstRun)

\* Both programs ran to the end in a group of three: every rank of main.cxx
\* issued init, size, rank, start barrier, broadcast, barrier, reduce and
\* finalize and returned ErrNone, and the manager took the remainder.
C22_Witness ==
    /\ firstRun # NoRun
    /\ AtRest
    /\ worldSize = 3
    /\ syncStarts_
    /\ \A p \in Procs :
          /\ proc[p].pc = "Done"
          /\ proc[p].ret = ErrNone
          /\ Len(TransportCalls(proc[p].calls)) = 8
          /\ firstRun.exit[p] = ErrNone
    /\ proc[0].numThrows > proc[1].numThrows

\* --- processArgs (checked under ArgsSpec)
\* A token that is a decimal numeral, and its value.
IsNumeral(tok) == tok # <<>> /\ \A i \in 1..Len(tok) : IsDigit(tok[i])
RECURSIVE NumeralValue(_)
NumeralValue(tok) ==
    IF tok = <<>> THEN 0
    ELSE 10 * NumeralValue(SubSeq(tok, 1, Len(tok) - 1)) + DigitValue(tok[Len(tok)])

\* The number of flag tokens in a row right before position i.
FlagRunBefore(args, i) ==
    CHOOSE k \in 0..(i - 1) :
        /\ \A j \in (i - k)..(i - 1) : IsThrowsFlag(args[j])
        /\ (k = i - 1) \/ ~IsThrowsFlag(args[i - k - 1])

\* A flag token acts as a flag unless it is the value of the flag before it.
ActsAsFlag(args, i) == IsThrowsFlag(args[i]) /\ (FlagRunBefore(args, i) % 2 = 0)

MaxOf(S) == CHOOSE m \in S : \A n \in S : n <= m

\* What processArgs returned and left in the settings, once it was called.
ArgsParsed == proc[0].calls # <<>> /\ proc[0].calls[1].op = "processArgs"
ParsedRet == proc[0].calls[1].rc
ParsedTotal == proc[0].totalNumThrows_

====
